---- MODULE Spec2Model ----
(***************************************************************************)
(* Model of src/bench_vllm_async.py: VLLMBenchmark.single_request,         *)
(* run_concurrent_batch, print_statistics and benchmark_suite.             *)
(*                                                                         *)
(* One asyncio event loop runs the main task (benchmark_suite, or a direct *)
(* call of run_concurrent_batch) and the child tasks asyncio.gather makes  *)
(* of the single_request coroutines.  A step of the model is what one task *)
(* does between two suspension points.                                     *)
(***************************************************************************)
EXTENDS Integers, Sequences, FiniteSets, TLC

\* ---------------------------------------------------------------- bounds
MaxConcurrency == 2  \* largest concurrency of a direct batch call
MaxRequests == 3     \* largest num_requests of a direct batch call
MaxSuiteRequests == 3 \* most requests one benchmark_suite pass dispatches
MaxChunks == 1       \* most non-empty chunks a response stream delivers
MaxChunkLen == 2     \* most bytes of one chunk
MaxTime == 2         \* the clock stops advancing at this instant
MaxTimedConcurrency == 1 \* largest concurrency of a batch run against the advancing clock
MaxTimedRequests == 2 \* largest num_requests of a batch run against the advancing clock
MaxRecords == 3      \* most records of a collection handed to print_statistics
MaxPrints == 2       \* most times print_statistics is called on one collection
MaxStream == 3       \* most chunks of a stream whose chunks are recorded

\* ------------------------------------------------------- program constants
HTTP_OK == 200           \* the status single_request accepts
QUANTILES_N == 20        \* statistics.quantiles(..., n=20)
P95_INDEX == 18          \* ...[18]

None == -1               \* first_token_time = None

VARIABLES
    \* the main task
    entry,               \* "suite": main() awaits benchmark_suite; "batch": run_concurrent_batch is called directly
    concurrency_levels,  \* benchmark_suite argument
    runs_per_level,      \* benchmark_suite argument
    level,               \* index in concurrency_levels of the level being run (0 before the first)
    run,                 \* the inner loop variable
    spc,                 \* position of benchmark_suite
    all_results,         \* the level-wide accumulator
    stdout,              \* the lines printed, in order
    calls,               \* the run_concurrent_batch calls made, in order
    level_runs,          \* the Batch Results returned at the current level, in order
    \* run_concurrent_batch
    concurrency,
    num_requests,
    bpc,                 \* position of run_concurrent_batch
    sem_value,           \* semaphore._value
    sem_waiters,         \* semaphore._waiters, request ids in FIFO order
    tasks,               \* the single_request tasks, by request_id
    cancel_requested,    \* the main task was cancelled while awaiting gather
    valid_results,       \* what run_concurrent_batch returns
    \* the clock and the transport
    now,                 \* what time.time() returns
    recording,           \* the transport records the chunks it serves
    given,               \* the lists print_statistics was called with, in order
    served               \* the kind of each chunk served to each request, with its instant

suiteVars == <<entry, concurrency_levels, runs_per_level, level, run, spc,
               all_results, stdout, calls, level_runs>>
batchVars == <<concurrency, num_requests, bpc, sem_value, sem_waiters, tasks,
               cancel_requested, valid_results>>
envVars == <<now, recording, served, given>>
vars == <<suiteVars, batchVars, envVars>>

\* ---------------------------------------------------------------- helpers
RECURSIVE SumSeq(_)
SumSeq(s) == IF s = <<>> THEN 0 ELSE Head(s) + SumSeq(Tail(s))

RECURSIVE Flatten(_)
Flatten(ss) == IF ss = <<>> THEN <<>> ELSE Head(ss) \o Flatten(Tail(ss))

SeqsUpTo(S, n) == UNION {[1..k -> S] : k \in 0..n}

Ids == 0..(num_requests - 1)

\* bytes of a chunk: whitespace or not
Statuses == {200, 500}

Bytes == {" ", "x"}
Chunks == SeqsUpTo(Bytes, MaxChunkLen)

IsSpace(b) == b = " "

\* bytes.strip(): drop leading and trailing whitespace
RECURSIVE LStrip(_)
LStrip(c) == IF c # <<>> /\ IsSpace(Head(c)) THEN LStrip(Tail(c)) ELSE c

RECURSIVE RStrip(_)
RStrip(c) ==
    IF c # <<>> /\ IsSpace(c[Len(c)]) THEN RStrip(SubSeq(c, 1, Len(c) - 1)) ELSE c

Strip(c) == RStrip(LStrip(c))

\* ------------------------------------------------------------ the records
\* tokens / total_time as an exact fraction
RECURSIVE GCD(_, _)
GCD(a, b) == IF b = 0 THEN a ELSE GCD(b, a % b)

\* the fraction n/d (n >= 0, d > 0) in lowest terms
Rat(n, d) == LET g == GCD(n, d) IN [num |-> n \div g, den |-> d \div g]

\* the quotient taken without looking at the divisor
TpsNoGuard(tokens, total_time) == [num |-> tokens, den |-> total_time]

\* line 94: tokens / total_time if total_time > 0 else 0
Tps(tokens, total_time) ==
    IF total_time > 0 THEN Rat(tokens, total_time) ELSE Rat(0, 1)

RequestMetrics(ttft, total_time, tokens, request_id, start_time) ==
    [kind |-> "RequestMetrics", ttft |-> ttft, total_time |-> total_time,
     tokens |-> tokens, tps |-> Tps(tokens, total_time),
     request_id |-> request_id, start_time |-> start_time]

NoneResult == [kind |-> "None"]
CancelledError == [kind |-> "CancelledError"]
Pending == [kind |-> "pending"]

\* a task as gather creates it: the coroutine has not run yet
NewTask ==
    [pc |-> "created", fut |-> "none", must_cancel |-> FALSE,
     start_time |-> 0, first_token_time |-> None, tokens |-> 0,
     posts |-> 0, status |-> 0, eof |-> FALSE,
     entered_at |-> 0, acquired_at |-> 0, released |-> 0,
     fail |-> "none", result |-> Pending]

\* ----------------------------------------------------------- the semaphore
\* locked() that looks at the waiters only
LockedIgnoresValue(value, waiters, ts) ==
    \E k \in 1..Len(waiters) : ts[waiters[k]].fut # "cancelled"

\* Semaphore.locked()
Locked(value, waiters, ts) ==
    value = 0 \/ \E k \in 1..Len(waiters) : ts[waiters[k]].fut # "cancelled"

\* positions of the waiters whose future is not done
NotDoneWaiters(waiters, ts) ==
    {k \in 1..Len(waiters) : ts[waiters[k]].fut = "pending"}

\* a release that wakes nobody
WakeUpNextNever(value, waiters, ts) == [value |-> value, tasks |-> ts]

\* Semaphore._wake_up_next(): hand the permit to the first waiter that is not done
WakeUpNext(value, waiters, ts) ==
    LET nd == NotDoneWaiters(waiters, ts) IN
    IF nd = {} THEN [value |-> value, tasks |-> ts]
    ELSE LET k == CHOOSE x \in nd : \A y \in nd : x <= y
             w == waiters[k]
         IN [value |-> value - 1,
             tasks |-> [ts EXCEPT ![w].fut = "result"]]

\* Semaphore.release()
Release(value, waiters, ts) == WakeUpNext(value + 1, waiters, ts)

\* deque.remove(fut)
RemoveWaiter(waiters, i) == SelectSeq(waiters, LAMBDA w : w # i)

\* ------------------------------------------------------- single_request
\* the instant the coroutine starts to run, at "async with semaphore"
Entered(t) == [t EXCEPT !.entered_at = now]

\* the instant Semaphore.acquire returns
Acquired(t) == [t EXCEPT !.acquired_at = now]

\* the clock read when the coroutine starts, before the permit is held
SendPostEarlyClock(t) ==
    [t EXCEPT !.pc = "post", !.fut = "none", !.start_time = t.entered_at,
              !.first_token_time = None, !.tokens = 0, !.posts = @ + 1]

\* lines 53-66: build the payload, read the clock, send the POST
SendPost(t) ==
    [t EXCEPT !.pc = "post", !.fut = "none", !.start_time = now,
              !.first_token_time = None, !.tokens = 0, !.posts = @ + 1]

\* leave "async with semaphore" with the permit still held
FinishNoRelease(ts, i, res, cause) ==
    /\ tasks' = [ts EXCEPT ![i].pc = "done", ![i].result = res,
                           ![i].fail = cause]
    /\ UNCHANGED <<sem_value, sem_waiters>>

\* leave "async with semaphore" with the task's result: release the permit
Finish(ts, i, res, cause) ==
    LET t1 == [ts EXCEPT ![i].pc = "done", ![i].result = res,
                         ![i].fail = cause, ![i].released = @ + 1]
        r == Release(sem_value, sem_waiters, t1)
    IN /\ sem_value' = r.value
       /\ tasks' = r.tasks
       /\ UNCHANGED sem_waiters

\* a record numbered from 1
MakeRecordOneBased(t, i) ==
    LET total_time == now - t.start_time
        ttft == IF t.first_token_time # None /\ t.first_token_time # 0
                THEN t.first_token_time - t.start_time ELSE 0
    IN RequestMetrics(ttft, total_time, t.tokens, i + 1, t.start_time)

\* a record whose time to first token is the instant of the first token
MakeRecordAbsoluteTtft(t, i) ==
    LET total_time == now - t.start_time
        ttft == IF t.first_token_time # None /\ t.first_token_time # 0
                THEN t.first_token_time ELSE 0
    IN RequestMetrics(ttft, total_time, t.tokens, i, t.start_time)

\* lines 87-97: the record of a stream read to its end
MakeRecord(t, i) ==
    LET total_time == now - t.start_time
        ttft == IF t.first_token_time # None /\ t.first_token_time # 0
                THEN t.first_token_time - t.start_time ELSE 0
    IN RequestMetrics(ttft, total_time, t.tokens, i, t.start_time)

AllStarted == \A j \in Ids : tasks[j].pc # "created"

\* a dispatch that awaits each request before it creates the next
RunnableSequential(i) == \A j \in Ids : j < i => tasks[j].pc = "done"

\* when the event loop may run a step of task i: gather schedules the first
\* step of every task before the main task suspends, and the loop runs
\* them in that order before it polls for I/O
Runnable(i) ==
    IF tasks[i].pc = "created"
    THEN \A j \in Ids : j < i => tasks[j].pc # "created"
    ELSE AllStarted

\* the task's first step: "async with semaphore" (Semaphore.acquire)
Start(i) ==
    /\ bpc = "gathering"
    /\ i \in Ids
    /\ tasks[i].pc = "created"
    /\ Runnable(i)
    /\ ~tasks[i].must_cancel
    /\ IF ~Locked(sem_value, sem_waiters, tasks)
       THEN /\ sem_value' = sem_value - 1
            /\ tasks' = [tasks EXCEPT ![i] = SendPost(Acquired(Entered(@)))]
            /\ UNCHANGED sem_waiters
       ELSE /\ sem_waiters' = Append(sem_waiters, i)
            /\ tasks' = [tasks EXCEPT ![i] = [Entered(@) EXCEPT
                                                 !.pc = "acquire_wait",
                                                 !.fut = "pending"]]
            /\ UNCHANGED sem_value
    /\ UNCHANGED <<suiteVars, concurrency, num_requests, bpc,
                   cancel_requested, valid_results, envVars>>

\* a waiter whose future got its result resumes in Semaphore.acquire
Resume(i) ==
    /\ bpc = "gathering"
    /\ i \in Ids
    /\ Runnable(i)
    /\ tasks[i].pc = "acquire_wait"
    /\ tasks[i].fut = "result"
    /\ ~tasks[i].must_cancel
    /\ LET ws == RemoveWaiter(sem_waiters, i)
           r == IF sem_value > 0 THEN WakeUpNext(sem_value, ws, tasks)
                ELSE [value |-> sem_value, tasks |-> tasks]
       IN /\ sem_waiters' = ws
          /\ sem_value' = r.value
          /\ tasks' = [r.tasks EXCEPT ![i] = SendPost(Acquired(@))]
    /\ UNCHANGED <<suiteVars, concurrency, num_requests, bpc,
                   cancel_requested, valid_results, envVars>>

\* session.post answers with a status (lines 66-72)
PostResponse(i, status) ==
    /\ bpc = "gathering"
    /\ i \in Ids
    /\ Runnable(i)
    /\ tasks[i].pc = "post"
    /\ ~tasks[i].must_cancel
    /\ IF status # HTTP_OK
       THEN Finish([tasks EXCEPT ![i].status = status], i, NoneResult, "http")
       ELSE /\ tasks' = [tasks EXCEPT ![i].pc = "stream", ![i].status = status]
            /\ UNCHANGED <<sem_value, sem_waiters>>
    /\ UNCHANGED <<suiteVars, concurrency, num_requests, bpc,
                   cancel_requested, valid_results, envVars>>

\* a POST that failed is sent again
PostFailsRetries(i) ==
    /\ bpc = "gathering"
    /\ i \in Ids
    /\ Runnable(i)
    /\ tasks[i].pc = "post"
    /\ ~tasks[i].must_cancel
    /\ tasks' = [tasks EXCEPT ![i] = SendPost(@)]
    /\ UNCHANGED <<suiteVars, concurrency, num_requests, bpc, sem_value,
                   sem_waiters, cancel_requested, valid_results, envVars>>

\* session.post raises (connection refused, timeout, ...): lines 83-85
PostFails(i) ==
    /\ bpc = "gathering"
    /\ i \in Ids
    /\ Runnable(i)
    /\ tasks[i].pc = "post"
    /\ ~tasks[i].must_cancel
    /\ Finish(tasks, i, NoneResult, "transport")
    /\ UNCHANGED <<suiteVars, concurrency, num_requests, bpc,
                   cancel_requested, valid_results, envVars>>

\* a chunk with a byte that is not white space
HasInk(chunk) == \E k \in 1..Len(chunk) : chunk[k] # " "

\* what the transport notes of a chunk it serves
Kind(chunk) ==
    IF chunk = <<>> THEN "empty" ELSE IF HasInk(chunk) THEN "ink" ELSE "space"

\* every chunk counted, blank or not
OnChunkCountsBlank(t, chunk) ==
    [t EXCEPT !.first_token_time = IF @ = None THEN now ELSE @,
              !.tokens = @ + 1]

\* lines 75-79: what one chunk does to the locals of the request
OnChunk(t, chunk) ==
    IF Strip(chunk) = <<>> THEN t
    ELSE [t EXCEPT !.first_token_time = IF @ = None THEN now ELSE @,
                   !.tokens = @ + 1]

\* one iteration of "async for chunk in resp.content" (lines 74-79)
ReadChunk(i, chunk) ==
    /\ bpc = "gathering"
    /\ i \in Ids
    /\ Runnable(i)
    /\ tasks[i].pc = "stream"
    /\ ~tasks[i].must_cancel
    /\ IF recording
       THEN /\ Len(served[i]) < MaxStream
            /\ served' = [served EXCEPT ![i] =
                             Append(@, [kind |-> Kind(chunk), at |-> now])]
       ELSE /\ Strip(chunk) = <<>> \/ tasks[i].tokens < MaxChunks
            /\ UNCHANGED served
    /\ tasks' = [tasks EXCEPT ![i] = OnChunk(@, chunk)]
    /\ UNCHANGED <<suiteVars, concurrency, num_requests, bpc, sem_value,
                   sem_waiters, cancel_requested, valid_results, now, recording,
                   given>>

\* a stream error that is not caught and fails the batch
StreamFailsUnwinds(i) ==
    /\ bpc = "gathering"
    /\ i \in Ids
    /\ Runnable(i)
    /\ tasks[i].pc = "stream"
    /\ ~tasks[i].must_cancel
    /\ Finish(tasks, i, NoneResult, "stream")
    /\ bpc' = "raised"
    /\ UNCHANGED <<suiteVars, concurrency, num_requests,
                   cancel_requested, valid_results, envVars>>

\* a stream error after which the figures gathered so far are returned
StreamFailsPartial(i) ==
    /\ bpc = "gathering"
    /\ i \in Ids
    /\ Runnable(i)
    /\ tasks[i].pc = "stream"
    /\ ~tasks[i].must_cancel
    /\ Finish(tasks, i, MakeRecord(tasks[i], i), "stream")
    /\ UNCHANGED <<suiteVars, concurrency, num_requests, bpc,
                   cancel_requested, valid_results, envVars>>

\* the stream raises while it is read: lines 83-85
StreamFails(i) ==
    /\ bpc = "gathering"
    /\ i \in Ids
    /\ Runnable(i)
    /\ tasks[i].pc = "stream"
    /\ ~tasks[i].must_cancel
    /\ Finish(tasks, i, NoneResult, "stream")
    /\ UNCHANGED <<suiteVars, concurrency, num_requests, bpc,
                   cancel_requested, valid_results, envVars>>

\* the stream ends: lines 87-97
StreamEnds(i) ==
    /\ bpc = "gathering"
    /\ i \in Ids
    /\ Runnable(i)
    /\ tasks[i].pc = "stream"
    /\ ~tasks[i].must_cancel
    /\ Finish([tasks EXCEPT ![i].eof = TRUE], i, MakeRecord(tasks[i], i), "none")
    /\ UNCHANGED <<suiteVars, concurrency, num_requests, bpc,
                   cancel_requested, valid_results, envVars>>

\* ------------------------------------------------------------ cancellation
\* Task.cancel() on a task that is not done
CancelTask(t) ==
    IF t.pc = "done" THEN t
    ELSE [t EXCEPT !.must_cancel = TRUE,
                   !.fut = IF @ = "pending" THEN "cancelled" ELSE @]

\* the main task is cancelled while it awaits gather (interrupt, timeout):
\* _GatheringFuture.cancel() cancels every child
CancelBatch ==
    /\ bpc = "gathering"
    /\ num_requests > 0
    /\ ~cancel_requested
    /\ cancel_requested' = TRUE
    /\ tasks' = [i \in Ids |-> CancelTask(tasks[i])]
    /\ UNCHANGED <<suiteVars, concurrency, num_requests, bpc, sem_value,
                   sem_waiters, valid_results, envVars>>

\* CancelledError is thrown into the coroutine of task i where it is
\* suspended; the task ends cancelled
ThrowCancelled(i) ==
    LET t1 == [tasks EXCEPT ![i].pc = "done", ![i].result = CancelledError,
                            ![i].must_cancel = FALSE, ![i].fut = "none",
                            ![i].tokens = 0,
                            ![i].first_token_time = None]
    IN CASE tasks[i].pc = "created" ->
              \* the coroutine never runs
              /\ tasks' = t1
              /\ UNCHANGED <<sem_value, sem_waiters>>
         [] tasks[i].pc = "acquire_wait" ->
              \* Semaphore.acquire: remove the future; a permit that was
              \* already handed over is given back
              LET ws == RemoveWaiter(sem_waiters, i)
                  r == IF tasks[i].fut = "result"
                       THEN WakeUpNext(sem_value + 1, ws, t1)
                       ELSE [value |-> sem_value, tasks |-> t1]
              IN /\ sem_waiters' = ws
                 /\ sem_value' = r.value
                 /\ tasks' = r.tasks
         [] OTHER ->
              \* lines 81-82 re-raise; "async with semaphore" releases
              LET r == Release(sem_value, sem_waiters,
                               [t1 EXCEPT ![i].released = @ + 1])
              IN /\ sem_value' = r.value
                 /\ tasks' = r.tasks
                 /\ UNCHANGED sem_waiters

\* the cancellation gather.cancel() asked for reaches task i; the wake-ups
\* it queued run in the order of the tasks
Cancelled(i) ==
    /\ bpc = "gathering"
    /\ i \in Ids
    /\ tasks[i].pc # "done"
    /\ tasks[i].must_cancel
    /\ Runnable(i)
    /\ \A j \in Ids : j < i => ~tasks[j].must_cancel
    /\ ThrowCancelled(i)
    /\ UNCHANGED <<suiteVars, concurrency, num_requests, bpc,
                   cancel_requested, valid_results, envVars>>

\* one request alone observes CancelledError where it is suspended (its
\* task is cancelled, or a future it awaits is), the main task is not
RequestCancelled(i) ==
    /\ bpc = "gathering"
    /\ i \in Ids
    /\ tasks[i].pc \in {"acquire_wait", "post", "stream"}
    /\ ~tasks[i].must_cancel
    /\ Runnable(i)
    /\ ThrowCancelled(i)
    /\ UNCHANGED <<suiteVars, concurrency, num_requests, bpc,
                   cancel_requested, valid_results, envVars>>

\* --------------------------------------------------- run_concurrent_batch
\* lines 112-132: the semaphore, the session, the tasks, gather
StartBatch(c, n) ==
    /\ concurrency' = c
    /\ num_requests' = n
    /\ sem_value' = c
    /\ sem_waiters' = <<>>
    /\ tasks' = [i \in 0..(n - 1) |-> NewTask]
    /\ cancel_requested' = FALSE
    /\ valid_results' = <<>>
    /\ bpc' = "gathering"
    /\ calls' = Append(calls, <<c, n>>)

IsRequestMetrics(r) == r.kind = "RequestMetrics"

\* what gather hands back: the tasks' results in the order of the tasks
GatherResults == [k \in 1..num_requests |-> tasks[k - 1].result]

AllDone == \A i \in Ids : tasks[i].pc = "done"

\* a wait that returns when the first task is done
GatherDoneFirstCompleted ==
    /\ bpc = "gathering"
    /\ AllDone \/ \E i \in Ids : tasks[i].pc = "done"
    /\ IF cancel_requested
       THEN /\ bpc' = "raised"
            /\ UNCHANGED valid_results
       ELSE /\ bpc' = "returned"
            /\ valid_results' = SelectSeq(GatherResults, IsRequestMetrics)
    /\ UNCHANGED <<suiteVars, concurrency, num_requests, sem_value,
                   sem_waiters, tasks, cancel_requested, envVars>>

\* gather completes (lines 132-137)
GatherDone ==
    /\ bpc = "gathering"
    /\ AllDone
    /\ IF cancel_requested
       THEN /\ bpc' = "raised"
            /\ UNCHANGED valid_results
       ELSE /\ bpc' = "returned"
            /\ valid_results' = SelectSeq(GatherResults, IsRequestMetrics)
    /\ UNCHANGED <<suiteVars, concurrency, num_requests, sem_value,
                   sem_waiters, tasks, cancel_requested, envVars>>

\* run_concurrent_batch(concurrency, num_requests) called on its own
CallBatch(c, n) ==
    /\ entry = "batch"
    /\ bpc = "idle"
    /\ c = concurrency
    /\ n = num_requests
    /\ StartBatch(c, n)
    /\ UNCHANGED <<entry, concurrency_levels, runs_per_level, level, run, spc,
                   all_results, stdout, level_runs, envVars>>

\* ------------------------------------------------------- print_statistics
RatLe(a, b) == a.num * b.den <= b.num * a.den
RatAdd(a, b) == Rat(a.num * b.den + b.num * a.den, a.den * b.den)
RatScale(a, k) == Rat(a.num * k, a.den)
RatDiv(a, k) == Rat(a.num, a.den * k)

\* what statistics.median, statistics.quantiles, min and max raise on too
\* little data
StatisticsError == [num |-> 0, den |-> 0]

\* sorted(data)
RECURSIVE Insert(_, _)
Insert(x, s) ==
    IF s = <<>> THEN <<x>>
    ELSE IF RatLe(x, Head(s)) THEN <<x>> \o s
    ELSE <<Head(s)>> \o Insert(x, Tail(s))

\* the data taken in the order it arrived
SortedAsGiven(s) == s

RECURSIVE Sorted(_)
Sorted(s) == IF s = <<>> THEN <<>> ELSE Insert(Head(s), Sorted(Tail(s)))

\* statistics.median(data); data[k] of Python is d[k + 1] here
Median(data) ==
    LET d == Sorted(data)
        n == Len(d)
        i == n \div 2
    IN IF n = 0 THEN StatisticsError
       ELSE IF n % 2 = 1 THEN d[i + 1]
       ELSE RatDiv(RatAdd(d[i], d[i + 1]), 2)

\* statistics.quantiles(data, n=n)[idx], method "exclusive"
Quantile(data, n, idx) ==
    LET d == Sorted(data)
        ld == Len(d)
        m == ld + 1
        i == idx + 1
        j0 == (i * m) \div n
        j == IF j0 < 1 THEN 1 ELSE IF j0 > ld - 1 THEN ld - 1 ELSE j0
        delta == i * m - j * n
    IN IF ld < 2 THEN StatisticsError
       ELSE RatDiv(RatAdd(RatScale(d[j], n - delta), RatScale(d[j + 1], delta)), n)

Min(data) == IF data = <<>> THEN StatisticsError ELSE Sorted(data)[1]
Max(data) == IF data = <<>> THEN StatisticsError ELSE Sorted(data)[Len(data)]

\* the 20-quantiles taken whatever the number of values
FiguresAlwaysQuantile(values) ==
    [p50 |-> Median(values),
     p95 |-> Quantile(values, QUANTILES_N, P95_INDEX),
     min |-> Min(values),
     max |-> Max(values)]

\* one printed line of figures: p50, p95, min, max of a list of values
Figures(values) ==
    [p50 |-> Median(values),
     p95 |-> IF Len(values) > 1 THEN Quantile(values, QUANTILES_N, P95_INDEX)
             ELSE IF values = <<>> THEN StatisticsError ELSE values[1],
     min |-> Min(values),
     max |-> Max(values)]

NoFigures == [p50 |-> Rat(0, 1), p95 |-> Rat(0, 1), min |-> Rat(0, 1), max |-> Rat(0, 1)]

\* print_statistics without its check for an empty list
print_statisticsNoGuard(results) ==
    LET ttfts == [k \in 1..Len(results) |-> Rat(results[k].ttft, 1)]
        total_times == [k \in 1..Len(results) |-> Rat(results[k].total_time, 1)]
        tps_values == [k \in 1..Len(results) |-> results[k].tps]
    IN [line |-> "Successful requests", count |-> Len(results),
        ttft |-> Figures(ttfts), total |-> Figures(total_times),
        tps |-> Figures(tps_values)]

\* what print_statistics(results, label) prints
print_statistics(results) ==
    IF results = <<>>
    THEN [line |-> "No successful requests", count |-> 0,
          ttft |-> NoFigures, total |-> NoFigures, tps |-> NoFigures]
    ELSE LET ttfts == [k \in 1..Len(results) |-> Rat(results[k].ttft, 1)]
             total_times == [k \in 1..Len(results) |-> Rat(results[k].total_time, 1)]
             tps_values == [k \in 1..Len(results) |-> results[k].tps]
         IN [line |-> "Successful requests", count |-> Len(results),
             ttft |-> Figures(ttfts), total |-> Figures(total_times),
             tps |-> Figures(tps_values)]

\* the other lines benchmark_suite prints
Header(what, n) ==
    [line |-> what, count |-> n,
     ttft |-> NoFigures, total |-> NoFigures, tps |-> NoFigures]

\* -------------------------------------------------------- benchmark_suite
\* a level that starts with the accumulator of the level before it
SuiteNextLevelKeepsAccumulator ==
    /\ entry = "suite"
    /\ spc = "for_level"
    /\ level < Len(concurrency_levels)
    /\ level' = level + 1
    /\ stdout' = Append(stdout, Header("Concurrency Level", concurrency_levels[level + 1]))
    /\ level_runs' = <<>>
    /\ run' = 0
    /\ spc' = "for_run"
    /\ UNCHANGED <<entry, concurrency_levels, runs_per_level, calls,
                   all_results, batchVars, envVars>>

\* "for concurrency in concurrency_levels": the next level (lines 171-176)
SuiteNextLevel ==
    /\ entry = "suite"
    /\ spc = "for_level"
    /\ level < Len(concurrency_levels)
    /\ level' = level + 1
    /\ stdout' = Append(stdout, Header("Concurrency Level", concurrency_levels[level + 1]))
    /\ all_results' = <<>>
    /\ level_runs' = <<>>
    /\ run' = 0
    /\ spc' = "for_run"
    /\ UNCHANGED <<entry, concurrency_levels, runs_per_level, calls, batchVars, envVars>>

\* the levels are exhausted: benchmark_suite returns
SuiteReturns ==
    /\ entry = "suite"
    /\ spc = "for_level"
    /\ level = Len(concurrency_levels)
    /\ spc' = "done"
    /\ UNCHANGED <<entry, concurrency_levels, runs_per_level, level, run,
                   all_results, stdout, calls, level_runs, batchVars, envVars>>

\* a run that dispatches one request more than the level has permits
SuiteStartRunOneMore ==
    /\ entry = "suite"
    /\ spc = "for_run"
    /\ run < runs_per_level
    /\ run' = run + 1
    /\ stdout' = Append(stdout, Header("Run", run + 1))
    /\ StartBatch(concurrency_levels[level], concurrency_levels[level] + 1)
    /\ spc' = "await_batch"
    /\ UNCHANGED <<entry, concurrency_levels, runs_per_level, level,
                   all_results, level_runs, envVars>>

\* every batch of the suite run under a limiter of one permit
SuiteStartRunOnePermit ==
    /\ entry = "suite"
    /\ spc = "for_run"
    /\ run < runs_per_level
    /\ run' = run + 1
    /\ stdout' = Append(stdout, Header("Run", run + 1))
    /\ StartBatch(1, concurrency_levels[level])
    /\ spc' = "await_batch"
    /\ UNCHANGED <<entry, concurrency_levels, runs_per_level, level,
                   all_results, level_runs, envVars>>

\* "for run in range(1, runs_per_level + 1)": lines 178-182
SuiteStartRun ==
    /\ entry = "suite"
    /\ spc = "for_run"
    /\ run < runs_per_level
    /\ run' = run + 1
    /\ stdout' = Append(stdout, Header("Run", run + 1))
    /\ StartBatch(concurrency_levels[level], concurrency_levels[level])
    /\ spc' = "await_batch"
    /\ UNCHANGED <<entry, concurrency_levels, runs_per_level, level,
                   all_results, level_runs, envVars>>

\* run_concurrent_batch returned: lines 183-188
SuiteBatchReturns ==
    /\ entry = "suite"
    /\ spc = "await_batch"
    /\ bpc = "returned"
    /\ stdout' = stdout \o <<Header("Batch completed", 0),
                             print_statistics(valid_results)>>
    /\ all_results' = all_results \o valid_results
    /\ level_runs' = Append(level_runs, valid_results)
    /\ spc' = "for_run"
    /\ bpc' = "idle"
    /\ UNCHANGED <<entry, concurrency_levels, runs_per_level, level, run, calls,
                   concurrency, num_requests, sem_value, sem_waiters, tasks,
                   cancel_requested, valid_results, envVars>>

\* the runs of the level are exhausted: lines 190-192
SuiteEndLevel ==
    /\ entry = "suite"
    /\ spc = "for_run"
    /\ run >= runs_per_level
    /\ IF all_results # <<>>
       THEN stdout' = stdout \o <<Header("Aggregate Statistics", runs_per_level),
                                  print_statistics(all_results)>>
       ELSE UNCHANGED stdout
    /\ spc' = "for_level"
    /\ UNCHANGED <<entry, concurrency_levels, runs_per_level, level, run,
                   all_results, calls, level_runs, batchVars, envVars>>

\* CancelledError leaves run_concurrent_batch: nothing in benchmark_suite
\* catches it
SuiteCancelled ==
    /\ entry = "suite"
    /\ spc = "await_batch"
    /\ bpc = "raised"
    /\ spc' = "cancelled"
    /\ UNCHANGED <<entry, concurrency_levels, runs_per_level, level, run,
                   all_results, stdout, calls, level_runs, batchVars, envVars>>

\* time passes while a batch runs; time.time() is taken never to go backwards
Tick ==
    /\ bpc = "gathering"
    /\ now < MaxTime
    /\ now' = now + 1
    /\ UNCHANGED <<suiteVars, batchVars, recording, served, given>>

\* ---------------------------------------------------------- specification
SuiteConfigs ==
    {cfg \in SeqsUpTo(1..MaxSuiteRequests, MaxSuiteRequests) \X (0..MaxSuiteRequests) :
        SumSeq(cfg[1]) * cfg[2] <= MaxSuiteRequests}

Init ==
    /\ entry \in {"suite", "batch"}
    /\ IF entry = "suite"
       THEN /\ \E cfg \in SuiteConfigs :
                  /\ concurrency_levels = cfg[1]
                  /\ runs_per_level = cfg[2]
            /\ concurrency = 0
            /\ num_requests = 0
            /\ spc = "for_level"
       ELSE /\ concurrency_levels = <<>>
            /\ runs_per_level = 0
            /\ concurrency \in 1..MaxConcurrency
            /\ num_requests \in 0..MaxRequests
            /\ spc = "none"
    /\ level = 0
    /\ run = 0
    /\ all_results = <<>>
    /\ stdout = <<>>
    /\ calls = <<>>
    /\ level_runs = <<>>
    /\ bpc = "idle"
    /\ sem_value = 0
    /\ sem_waiters = <<>>
    /\ tasks = [i \in {} |-> NewTask]
    /\ cancel_requested = FALSE
    /\ valid_results = <<>>
    /\ now = 0
    /\ recording = FALSE
    /\ served = <<>>
    /\ given = <<>>

Next ==
    \/ \E c \in 1..MaxConcurrency, n \in 0..MaxRequests : CallBatch(c, n)
    \/ \E i \in Ids : Start(i)
    \/ \E i \in Ids : Resume(i)
    \/ \E i \in Ids, status \in Statuses : PostResponse(i, status)
    \/ \E i \in Ids : PostFails(i)
    \/ \E i \in Ids, chunk \in Chunks : ReadChunk(i, chunk)
    \/ \E i \in Ids : StreamFails(i)
    \/ \E i \in Ids : StreamEnds(i)
    \/ \E i \in Ids : RequestCancelled(i)
    \/ CancelBatch
    \/ \E i \in Ids : Cancelled(i)
    \/ GatherDone
    \/ SuiteNextLevel
    \/ SuiteStartRun
    \/ SuiteBatchReturns
    \/ SuiteEndLevel
    \/ SuiteCancelled
    \/ SuiteReturns

Spec == Init /\ [][Next]_vars

\* a batch run against a clock that advances; with one request the transport
\* records the chunks it serves
TimedInit ==
    /\ entry = "batch"
    /\ concurrency_levels = <<>>
    /\ runs_per_level = 0
    /\ spc = "none"
    /\ level = 0
    /\ run = 0
    /\ all_results = <<>>
    /\ stdout = <<>>
    /\ calls = <<>>
    /\ level_runs = <<>>
    /\ recording \in BOOLEAN
    /\ concurrency \in 1..MaxTimedConcurrency
    /\ num_requests \in 1..(IF recording THEN 1 ELSE MaxTimedRequests)
    /\ bpc = "idle"
    /\ sem_value = 0
    /\ sem_waiters = <<>>
    /\ tasks = [i \in {} |-> NewTask]
    /\ cancel_requested = FALSE
    /\ valid_results = <<>>
    /\ now = 0
    /\ served = [i \in 0..(num_requests - 1) |-> <<>>]
    /\ given = <<>>

TimedNext ==
    \/ \E c \in 1..MaxTimedConcurrency, n \in 1..MaxTimedRequests : CallBatch(c, n)
    \/ \E i \in Ids : Start(i)
    \/ \E i \in Ids : Resume(i)
    \/ \E i \in Ids, status \in Statuses : PostResponse(i, status)
    \/ \E i \in Ids : PostFails(i)
    \/ \E i \in Ids, chunk \in Chunks : ReadChunk(i, chunk)
    \/ \E i \in Ids : StreamFails(i)
    \/ \E i \in Ids : StreamEnds(i)
    \/ GatherDone
    \/ Tick

TimedSpec == TimedInit /\ [][TimedNext]_vars

\* records single_request can return: of a stream with no token, and of a
\* stream of MaxChunks tokens the first of which came with the last
Records ==
    {RequestMetrics(0, d, 0, 0, 0) : d \in 0..MaxTime}
        \cup {RequestMetrics(d, d, MaxChunks, 0, 0) : d \in 0..MaxTime}

\* print_statistics called on a collection of records: lines 139-164 read
\* the list and print
PrintStatistics ==
    /\ entry = "stats"
    /\ Len(stdout) < MaxPrints
    /\ stdout' = Append(stdout, print_statistics(all_results))
    /\ given' = Append(given, all_results)
    /\ UNCHANGED <<entry, concurrency_levels, runs_per_level, level, run, spc,
                   all_results, calls, level_runs, batchVars, now, recording,
                   served>>

\* the same records arrive in another order: two neighbours change places
\* between one call of print_statistics and the next
Reorder(k) ==
    /\ entry = "stats"
    /\ given # <<>>
    /\ all_results = given[Len(given)]
    /\ k \in 1..(Len(all_results) - 1)
    /\ all_results' = [all_results EXCEPT ![k] = all_results[k + 1],
                                          ![k + 1] = all_results[k]]
    /\ UNCHANGED <<entry, concurrency_levels, runs_per_level, level, run, spc,
                   stdout, calls, level_runs, batchVars, envVars>>

\* print_statistics on its own, on any collection of up to MaxRecords records
StatsInit ==
    /\ entry = "stats"
    /\ concurrency_levels = <<>>
    /\ runs_per_level = 0
    /\ spc = "none"
    /\ level = 0
    /\ run = 0
    /\ all_results \in SeqsUpTo(Records, MaxRecords)
    /\ stdout = <<>>
    /\ calls = <<>>
    /\ level_runs = <<>>
    /\ concurrency = 1
    /\ num_requests = 0
    /\ bpc = "idle"
    /\ sem_value = 0
    /\ sem_waiters = <<>>
    /\ tasks = [i \in {} |-> NewTask]
    /\ cancel_requested = FALSE
    /\ valid_results = <<>>
    /\ now = 0
    /\ recording = FALSE
    /\ served = <<>>
    /\ given = <<>>

StatsNext ==
    \/ PrintStatistics
    \/ \E k \in 1..MaxRecords : Reorder(k)

StatsSpec == StatsInit /\ [][StatsNext]_vars

\* run_concurrent_batch called on its own and never cancelled
LiveInit ==
    /\ Init
    /\ entry = "batch"

LiveNext ==
    \/ \E c \in 1..MaxConcurrency, n \in 0..MaxRequests : CallBatch(c, n)
    \/ \E i \in Ids : Start(i)
    \/ \E i \in Ids : Resume(i)
    \/ \E i \in Ids, status \in Statuses : PostResponse(i, status)
    \/ \E i \in Ids : PostFails(i)
    \/ \E i \in Ids, chunk \in Chunks : ReadChunk(i, chunk)
    \/ \E i \in Ids : StreamFails(i)
    \/ \E i \in Ids : StreamEnds(i)
    \/ GatherDone

\* the POST of request i is answered or fails
PostSettles(i) == PostFails(i) \/ \E status \in Statuses : PostResponse(i, status)

\* the stream of request i ends or fails
StreamSettles(i) == StreamEnds(i) \/ StreamFails(i)

\* the event loop runs every callback that is ready, and the transport
\* settles every request that holds a permit
Fairness ==
    /\ WF_vars(\E c \in 1..MaxConcurrency, n \in 0..MaxRequests : CallBatch(c, n))
    /\ WF_vars(GatherDone)
    /\ \A i \in 0..(MaxRequests - 1) :
          /\ WF_vars(Start(i))
          /\ WF_vars(Resume(i))
          /\ WF_vars(PostSettles(i))
          /\ WF_vars(StreamSettles(i))

LiveSpec == LiveInit /\ [][LiveNext]_vars /\ Fairness

\* ------------------------------------------------------------------ types
TypeOK ==
    /\ entry \in {"suite", "batch", "stats"}
    /\ bpc \in {"idle", "gathering", "returned", "raised"}
    /\ spc \in {"none", "for_level", "for_run", "await_batch", "done", "cancelled"}
    /\ sem_value \in 0..(MaxRequests + MaxSuiteRequests)
    /\ \A i \in DOMAIN tasks :
         /\ tasks[i].pc \in {"created", "acquire_wait", "post", "stream", "done"}
         /\ tasks[i].fut \in {"none", "pending", "result", "cancelled"}

\* ----------------------------------------------------------------- claims
Last(s) == s[Len(s)]

MinOf(a, b) == IF a < b THEN a ELSE b

\* the requests that hold a permit: sending or streaming
InFlight == {i \in DOMAIN tasks : tasks[i].pc \in {"post", "stream"}}

\* the waiters that were handed a permit and have not resumed yet
Woken == {i \in DOMAIN tasks : tasks[i].pc = "acquire_wait" /\ tasks[i].fut = "result"}

WasCancelled(i) == tasks[i].result.kind = "CancelledError"

RecordIds(rs) == {rs[k].request_id : k \in 1..Len(rs)}

\* C1: at most `concurrency` requests hold a permit at any time
C1_ConcurrencyBound ==
    Cardinality(InFlight) <= concurrency

\* C1 witness: a batch with more requests than permits has every permit
\* held while another request waits
C1_Witness ==
    /\ bpc = "gathering"
    /\ num_requests > concurrency
    /\ Cardinality(InFlight) = concurrency
    /\ \E i \in DOMAIN tasks : tasks[i].pc = "acquire_wait"

\* C2: per-request failures never unwind past run_concurrent_batch, never
\* cancel a sibling, and the batch returns exactly the records of the
\* requests that did not fail
C2_FailureIsolation ==
    /\ bpc = "raised" => cancel_requested
    /\ \A i \in DOMAIN tasks : tasks[i].must_cancel => cancel_requested
    /\ (bpc = "returned" /\ \A i \in DOMAIN tasks : ~WasCancelled(i)) =>
         /\ RecordIds(valid_results) = {i \in DOMAIN tasks : tasks[i].fail = "none"}
         /\ Len(valid_results) = Cardinality(RecordIds(valid_results))
         /\ \A i \in DOMAIN tasks : tasks[i].posts = 1

\* C2 witness: three requests, the even ids failed, the batch returned the
\* one odd-id record
C2_Witness ==
    /\ bpc = "returned"
    /\ num_requests = 3
    /\ tasks[0].fail # "none"
    /\ tasks[2].fail # "none"
    /\ tasks[1].fail = "none"
    /\ RecordIds(valid_results) = {1}

\* C3: a returned batch has at most num_requests records, with distinct
\* request_ids in [0, num_requests)
C3_BatchResultShape ==
    bpc = "returned" =>
        /\ Len(valid_results) <= num_requests
        /\ \A k \in 1..Len(valid_results) :
             valid_results[k].request_id \in 0..(num_requests - 1)
        /\ \A k, l \in 1..Len(valid_results) :
             valid_results[k].request_id = valid_results[l].request_id => k = l

\* C3 witness: every request of a batch of three produced its record
C3_Witness ==
    /\ bpc = "returned"
    /\ num_requests = 3
    /\ Len(valid_results) = 3

\* C4: a request that observed cancellation is never merely absent from a
\* Batch Result returned normally
C4_CancellationPropagates ==
    bpc = "returned" => \A i \in DOMAIN tasks : ~WasCancelled(i)

\* C5: a request ends with a record exactly when the status was 200 and the
\* stream was read to its end; what a failed request had counted is in no
\* Batch Result
C5_RecordIffCompleted ==
    /\ \A i \in DOMAIN tasks :
         tasks[i].pc = "done" =>
            (IsRequestMetrics(tasks[i].result)
               <=> (tasks[i].status = HTTP_OK /\ tasks[i].eof))
    /\ bpc = "returned" =>
         \A k \in 1..Len(valid_results) :
            LET t == tasks[valid_results[k].request_id]
            IN t.fail = "none" /\ t.eof /\ valid_results[k].tokens = t.tokens

\* C5 witness: a request failed mid-stream after a chunk was counted, and
\* the batch returned without a record of it
C5_Witness ==
    /\ bpc = "returned"
    /\ \E i \in DOMAIN tasks :
         /\ tasks[i].fail = "stream"
         /\ tasks[i].tokens > 0
         /\ i \notin RecordIds(valid_results)

FiguresOf(l) == {l.ttft, l.total, l.tps}

\* C6: an empty collection is reported as "No successful requests", and no
\* median, quantile, min or max is ever taken of an empty collection
C6_EmptyResult ==
    /\ \A k \in 1..Len(stdout) :
         /\ \A f \in FiguresOf(stdout[k]) :
              StatisticsError \notin {f.p50, f.p95, f.min, f.max}
         /\ stdout[k].line = "Successful requests" => stdout[k].count > 0
    /\ (spc = "for_run" /\ level_runs # <<>> /\ Last(level_runs) = <<>>) =>
         Last(stdout).line = "No successful requests"

\* C6 witness: a run of two requests lost both and was reported as empty
C6_Witness ==
    /\ spc = "for_run"
    /\ num_requests >= 2
    /\ level_runs # <<>>
    /\ Last(level_runs) = <<>>
    /\ Last(stdout).line = "No successful requests"

\* the level aggregate is the last thing printed
AggregateReported ==
    /\ Len(stdout) >= 2
    /\ stdout[Len(stdout) - 1].line = "Aggregate Statistics"
    /\ Last(stdout) = print_statistics(all_results)

\* C7 as stated: after the last run of every level the statistics of the
\* accumulator are reported, whether or not a record was collected
C7_Original ==
    (spc = "for_level" /\ level >= 1 /\ runs_per_level >= 1) => AggregateReported

\* C7 amended: the accumulator is the concatenation of the level's Batch
\* Results; after the last run its statistics are reported when it is not
\* empty, and nothing is reported for the level when it is empty
C7_LevelAggregate ==
    /\ all_results = Flatten(level_runs)
    /\ (spc = "for_level" /\ level >= 1) =>
         /\ Len(level_runs) = runs_per_level
         /\ IF all_results # <<>>
            THEN /\ AggregateReported
                 /\ runs_per_level = 1 =>
                      /\ all_results = level_runs[1]
                      /\ Last(stdout) = stdout[Len(stdout) - 2]
            ELSE Last(stdout).line \in {"Concurrency Level", "No successful requests"}

\* C7 witness: a level of several runs ended with records of more than one
\* run in the accumulator
C7_Witness ==
    /\ spc = "for_level"
    /\ level >= 1
    /\ Len(level_runs) >= 2
    /\ level_runs[1] # <<>>
    /\ level_runs[2] # <<>>
    /\ AggregateReported

BatchStarts == bpc # "gathering" /\ bpc' = "gathering"

\* C8: a batch starts only when every request of the batch before it is
\* done and its statistics are printed, and the levels are visited in order
C8_NoOverlap ==
    [][/\ level' \in {level, level + 1}
       /\ BatchStarts =>
            /\ \A i \in DOMAIN tasks : tasks[i].pc = "done"
            /\ bpc = "idle"
            /\ entry = "suite" =>
                 /\ Cardinality({k \in 1..Len(stdout) :
                                   stdout[k].line = "Batch completed"}) = Len(calls)
                 /\ concurrency' = concurrency_levels[level]]_vars

\* C8 witness: a request of the second batch of a suite is in flight
C8_Witness ==
    /\ entry = "suite"
    /\ Len(calls) >= 2
    /\ bpc = "gathering"
    /\ InFlight # {}

\* the calls one pass makes: runs_per_level calls (c, c) for each level c
RECURSIVE ExpectedCalls(_)
ExpectedCalls(levels) ==
    IF levels = <<>> THEN <<>>
    ELSE [k \in 1..runs_per_level |-> <<Head(levels), Head(levels)>>]
         \o ExpectedCalls(Tail(levels))

IsPrefix(s, t) == Len(s) <= Len(t) /\ s = SubSeq(t, 1, Len(s))

\* C9: a pass of benchmark_suite calls run_concurrent_batch(c, c) exactly
\* runs_per_level times for each level c, dispatching c requests each time,
\* and prints each run's statistics over that run's Batch Result alone
C9_RunsPerLevel ==
    entry = "suite" =>
        /\ IsPrefix(calls, ExpectedCalls(concurrency_levels))
        /\ spc = "done" => calls = ExpectedCalls(concurrency_levels)
        /\ bpc = "gathering" =>
             /\ concurrency = concurrency_levels[level]
             /\ DOMAIN tasks = 0..(concurrency - 1)
             /\ sem_value + Cardinality(InFlight) + Cardinality(Woken) = concurrency
        /\ (spc = "for_run" /\ level_runs # <<>>) =>
             /\ Last(stdout) = print_statistics(Last(level_runs))
             /\ Len(level_runs) = run

\* C9 witness: a pass over two levels that made all its calls has returned
C9_Witness ==
    /\ spc = "done"
    /\ Len(concurrency_levels) >= 2
    /\ Len(calls) >= 2

\* the tasks that ended otherwise than by cancellation
Completed == {i \in DOMAIN tasks : tasks[i].pc = "done" /\ ~WasCancelled(i)}

\* C10: every request is launched before any completes, a request waits
\* only while all permits are taken, and once all are launched min(C, N)
\* requests are in flight together
C10_ConcurrentDispatch ==
    bpc = "gathering" =>
        /\ DOMAIN tasks = 0..(num_requests - 1)
        /\ Completed # {} => AllStarted
        /\ \A i \in DOMAIN tasks :
             (tasks[i].pc = "acquire_wait" /\ tasks[i].fut = "pending") =>
                /\ sem_value = 0
                /\ Cardinality(InFlight) + Cardinality(Woken) = concurrency
        /\ (AllStarted /\ \A i \in DOMAIN tasks : tasks[i].pc # "done"
                       /\ ~cancel_requested) =>
             Cardinality(InFlight) = MinOf(concurrency, num_requests)

\* C10 witness: two of three requests are in flight together under two permits
C10_Witness ==
    /\ bpc = "gathering"
    /\ concurrency = 2
    /\ num_requests = 3
    /\ Cardinality(InFlight) = 2
    /\ Completed = {}

\* the requests whose stream was read to its end
Recorded == {i \in DOMAIN tasks : tasks[i].pc = "done" /\ IsRequestMetrics(tasks[i].result)}

\* C11: a record with tokens has 0 <= ttft <= total_time, and a record with
\* no token has ttft = 0, the clock never going backwards between the reads
\* at request start, at the first non-empty chunk and at stream end
C11_TtftWithinTotal ==
    \A i \in Recorded :
        LET r == tasks[i].result
        IN /\ r.tokens > 0 => (0 <= r.ttft /\ r.ttft <= r.total_time)
           /\ r.tokens = 0 => r.ttft = 0

\* C11 witness: one request saw its first token
\* strictly between its start and its end, and another returned no token
C11_Witness ==
    /\ \E i \in Recorded :
          /\ tasks[i].result.tokens > 0
          /\ 0 < tasks[i].result.ttft
          /\ tasks[i].result.ttft < tasks[i].result.total_time
    /\ \E i \in Recorded : tasks[i].result.tokens = 0

\* C12: tps is 0 when total_time is 0 and tokens / total_time when
\* total_time > 0, and no record holds a quotient by zero
C12_TpsGuarded ==
    \A i \in Recorded :
        LET r == tasks[i].result
        IN /\ r.tps.den # 0
           /\ r.total_time = 0 => r.tps.num = 0
           /\ r.total_time > 0 => r.tps.num * r.total_time = r.tokens * r.tps.den

\* C12 witness: one record has tokens and no duration, another has tokens
\* and a duration
C12_Witness ==
    /\ \E i \in Recorded :
          /\ tasks[i].result.total_time = 0
          /\ tasks[i].result.tokens > 0
          /\ tasks[i].result.tps.num = 0
    /\ \E i \in Recorded :
          /\ tasks[i].result.total_time > 0
          /\ tasks[i].result.tps.num > 0

\* the positions of the served chunks that have a byte other than white space
InkAt(log) == {k \in 1..Len(log) : log[k].kind = "ink"}

FirstOf(S) == CHOOSE k \in S : \A m \in S : k <= m

\* C13: the record of a stream read to its end counts exactly the chunks
\* that are not empty or white space, and its ttft is measured at the first
\* of them (0 when there is none)
C13_CountsNonBlank ==
    recording =>
        \A i \in Recorded :
            LET r == tasks[i].result
                ink == InkAt(served[i])
            IN /\ r.tokens = Cardinality(ink)
               /\ r.ttft = IF ink = {} THEN 0
                           ELSE served[i][FirstOf(ink)].at - r.start_time

\* C13 witness: a blank chunk at the start, then two real chunks at later
\* and different instants; the record counts two and times the first of them
C13_Witness ==
    /\ recording
    /\ \E i \in Recorded :
          /\ Len(served[i]) = 3
          /\ InkAt(served[i]) = {2, 3}
          /\ served[i][1].kind = "space"
          /\ served[i][1].at < served[i][2].at
          /\ served[i][2].at < served[i][3].at
          /\ tasks[i].result.tokens = 2
          /\ tasks[i].result.ttft = served[i][2].at - tasks[i].result.start_time
          /\ tasks[i].result.ttft > 0

\* the requests that sent their POST
Sent == {i \in DOMAIN tasks : tasks[i].posts > 0}

\* C19: start_time is read once the permit is held, so the wait for the
\* permit is in neither ttft nor total_time
C19_ClockAfterPermit ==
    /\ \A i \in Sent :
          /\ tasks[i].entered_at <= tasks[i].acquired_at
          /\ tasks[i].pc \in {"post", "stream"} =>
                tasks[i].start_time >= tasks[i].acquired_at
    /\ \A i \in Recorded :
          /\ tasks[i].result.start_time >= tasks[i].acquired_at
          /\ tasks[i].result.start_time + tasks[i].result.total_time <= now

\* C19 witness: a request waited for its permit while time passed, and its
\* record starts at the instant the permit was acquired
C19_Witness ==
    \E i \in Recorded :
        /\ tasks[i].entered_at < tasks[i].acquired_at
        /\ tasks[i].result.start_time = tasks[i].acquired_at
        /\ tasks[i].result.total_time > 0

\* the POSTs a batch has sent
TotalPosts == SumSeq([k \in 1..Cardinality(DOMAIN tasks) |-> tasks[k - 1].posts])

\* C16: a request sends at most one POST whatever its outcome, a request
\* that has not entered the limiter has sent none, and a batch of N
\* requests sends at most N
C16_NoRetry ==
    /\ \A i \in DOMAIN tasks :
          /\ tasks[i].posts <= 1
          /\ tasks[i].pc \in {"created", "acquire_wait"} => tasks[i].posts = 0
          /\ tasks[i].pc \in {"post", "stream"} => tasks[i].posts = 1
    /\ bpc # "idle" => TotalPosts <= num_requests

\* C16 witness: a batch returned in which a non-200 response, a transport
\* failure and a failure in mid-stream each ended a request after its one POST
C16_Witness ==
    /\ bpc = "returned"
    /\ TotalPosts = num_requests
    /\ \E i \in DOMAIN tasks : tasks[i].fail = "http" /\ tasks[i].posts = 1
    /\ \E i \in DOMAIN tasks : tasks[i].fail = "transport" /\ tasks[i].posts = 1
    /\ \E i \in DOMAIN tasks : tasks[i].fail = "stream" /\ tasks[i].posts = 1

\* C17: the free permits and the permits held (by the requests sending or
\* streaming, and by the waiters Semaphore.release has already handed one)
\* add up to the capacity; a request that entered the limiter leaves it
\* having released once, one that never entered releases nothing; when the
\* batch ends every permit is free
C17_PermitConservation ==
    bpc # "idle" =>
        /\ sem_value + Cardinality(InFlight) + Cardinality(Woken) = concurrency
        /\ \A i \in DOMAIN tasks :
              /\ tasks[i].released <= tasks[i].posts
              /\ tasks[i].pc \in {"post", "stream"} => tasks[i].released = 0
              /\ tasks[i].pc = "done" => tasks[i].released = tasks[i].posts
        /\ bpc \in {"returned", "raised"} =>
              /\ sem_value = concurrency
              /\ sem_waiters = <<>>

\* C17 witness: a batch of more requests than permits ended with every
\* permit free after a record, a discard and a cancellation re-raised from
\* inside the limiter
C17_Witness ==
    /\ bpc = "returned"
    /\ num_requests > concurrency
    /\ sem_value = concurrency
    /\ \E i \in DOMAIN tasks :
          IsRequestMetrics(tasks[i].result) /\ tasks[i].released = 1
    /\ \E i \in DOMAIN tasks :
          tasks[i].result = NoneResult /\ tasks[i].released = 1
    /\ \E i \in DOMAIN tasks : WasCancelled(i) /\ tasks[i].released = 1

\* C20: under benchmark_suite a batch has as many requests as permits, so
\* no request ever waits for one
C20_SuiteNeverWaits ==
    entry = "suite" =>
        /\ sem_waiters = <<>>
        /\ \A i \in DOMAIN tasks : tasks[i].pc # "acquire_wait"
        /\ bpc # "idle" => num_requests = concurrency

\* C20 witness: a suite batch of two or more requests has all of them in
\* flight, no permit free and nobody waiting
C20_Witness ==
    /\ entry = "suite"
    /\ bpc = "gathering"
    /\ num_requests >= 2
    /\ InFlight = DOMAIN tasks
    /\ sem_value = 0
    /\ sem_waiters = <<>>

\* the same records, each as many times
SameMultiset(a, b) ==
    /\ Len(a) = Len(b)
    /\ \A r \in Records :
          Cardinality({k \in 1..Len(a) : a[k] = r}) =
          Cardinality({k \in 1..Len(b) : b[k] = r})

\* a call of print_statistics
Prints == Len(stdout') = Len(stdout) + 1

\* C14: the figures printed depend only on the multiset of records: two
\* calls given the same records, in the same or in another order, print the
\* same figures, and a call leaves the list it was given as it was
C14_PureOfMultiset ==
    /\ [](\A j, k \in 1..Len(stdout) :
            (j <= Len(given) /\ k <= Len(given) /\ SameMultiset(given[j], given[k]))
                => stdout[j] = stdout[k])
    /\ [][Prints => all_results' = all_results]_vars

\* C14 witness: three records, no two alike in any measured field, were
\* printed twice, in two different orders
C14_Witness ==
    /\ entry = "stats"
    /\ Len(stdout) = 2
    /\ Len(given[1]) = 3
    /\ given[1] # given[2]
    /\ \A j, k \in 1..3 :
          j # k => /\ given[1][j].ttft # given[1][k].ttft
                   /\ given[1][j].total_time # given[1][k].total_time
                   /\ given[1][j].tps # given[1][k].tps
    /\ stdout[1] = stdout[2]

\* C15: of one record alone, p50, p95, min and max of each measured field
\* are that record's value, and no quantile is taken of the single value
C15_SingleRecord ==
    \A k \in 1..Len(stdout) :
        (entry = "stats" /\ Len(given[k]) = 1) =>
            LET r == given[k][1]
                Is(f, v) == /\ f.p50 = v
                            /\ f.p95 = v
                            /\ f.min = v
                            /\ f.max = v
                            /\ f.p95 # StatisticsError
            IN /\ stdout[k].count = 1
               /\ Is(stdout[k].ttft, Rat(r.ttft, 1))
               /\ Is(stdout[k].total, Rat(r.total_time, 1))
               /\ Is(stdout[k].tps, r.tps)

\* C15 witness: one record with a time to first token, a total time and a
\* throughput, none of them zero, was printed
C15_Witness ==
    /\ entry = "stats"
    /\ Len(stdout) >= 1
    /\ Len(given[1]) = 1
    /\ given[1][1].ttft > 0
    /\ given[1][1].total_time > 0
    /\ given[1][1].tps.num > 0
    /\ stdout[1].tps.p95 = given[1][1].tps

\* C18: with no cancellation, a fair event loop and a transport that
\* settles every request holding a permit, every batch returns, and by then
\* each of its requests has acquired a permit and sent its POST
C18_BatchTerminates ==
    <>(/\ bpc = "returned"
       /\ DOMAIN tasks = 0..(num_requests - 1)
       /\ \A i \in DOMAIN tasks : tasks[i].pc = "done" /\ tasks[i].posts = 1)

\* C18 witness: a batch of more requests than permits returned after every
\* request, the ones that had to wait included, held a permit
C18_Witness ==
    /\ entry = "batch"
    /\ bpc = "returned"
    /\ num_requests > concurrency
    /\ ~cancel_requested
    /\ \A i \in DOMAIN tasks : tasks[i].posts = 1 /\ tasks[i].released = 1

====
